---- MODULE Spec2Model ----
(***************************************************************************)
(* A model of src/src/promise.js: the Promise class (constructor, then),   *)
(* the resolution procedure resolvePromise, Promise.deferred and the task  *)
(* queue behind nextTick (setTimeout(fn, 0): first in, first out).         *)
(*                                                                         *)
(* A promise is a number 1..Len(state); its fields are the sequences       *)
(* state, value, reason, resolvedCallbacks and rejectedCallbacks indexed   *)
(* by that number.  Every synchronous call (a constructor call, a call of  *)
(* a resolve or reject capability, a call of then) is one action, and so   *)
(* is every task run from the task queue.                                  *)
(***************************************************************************)
EXTENDS Integers, Sequences, FiniteSets, TLC

VARIABLES
    state,              \* state[p]: this.state
    value,              \* value[p]: this.value
    reason,             \* reason[p]: this.reason
    resolvedCallbacks,  \* resolvedCallbacks[p]: this.resolvedCallbacks
    rejectedCallbacks,  \* rejectedCallbacks[p]: this.rejectedCallbacks
    parent,             \* parent[p]: `this` of the then call that made p (0: none)
    onFulfilled,        \* onFulfilled[p]: the onFulfilled argument of that then call
    onRejected,         \* onRejected[p]: the onRejected argument of that then call
    called,             \* called[c]: the called flag of the c-th resolvePromise
                        \* call that got past the promise2 === x test
    tasks,              \* the timer queue behind nextTick
    log,                \* handler invocations, in the order they happened
    calls,              \* how many resolve/reject capability calls the program made
    threw,              \* whether the constructor call of promise 1 threw
    executor,           \* history: the executor promise 1 was constructed with
    firstCall           \* history: the first call of a capability of promise 1

vars == <<state, value, reason, resolvedCallbacks, rejectedCallbacks, parent,
          onFulfilled, onRejected, called, tasks, log, calls, threw,
          executor, firstCall>>

(***************************************************************************)
(* Bounds of the model.                                                    *)
(***************************************************************************)
MaxPromises == 3
MaxCalls == 2

(***************************************************************************)
(* The three states.                                                       *)
(***************************************************************************)
PENDING == "PENDING"
RESOLVED == "RESOLVED"
REJECTED == "REJECTED"

(***************************************************************************)
(* JavaScript values: undefined, primitives, Error objects, the TypeError  *)
(* of resolvePromise, foreign thenables, objects whose then is a getter    *)
(* that throws Err(n), and promises of this class.                         *)
(***************************************************************************)
Undefined == [k |-> "undefined", n |-> 0]
Plain(n) == [k |-> "plain", n |-> n]
Err(n) == [k |-> "error", n |-> n]
CycleError == [k |-> "TypeError", n |-> 0]
Thenable(n) == [k |-> "thenable", n |-> n]
BadThen(n) == [k |-> "badThen", n |-> n]
PromiseRef(p) == [k |-> "promise", n |-> p]

(***************************************************************************)
(* A function is a record whose k says what the function does:             *)
(*   ret: returns v;  throw: throws v;                                     *)
(*   thenAgain: calls p.then(v, v) on the promise p it was registered on   *)
(*   and returns undefined;                                                *)
(*   adoptY, adoptR: the two callbacks resolvePromise hands to x.then,     *)
(*   v the promise2 of that resolvePromise call and cell its called flag.  *)
(***************************************************************************)
Ret(v) == [k |-> "ret", v |-> v]
Throw(v) == [k |-> "throw", v |-> v]
ThenAgain(h) == [k |-> "thenAgain", v |-> h]
AdoptY(promise2, cell) ==
    [k |-> "adoptY", v |-> PromiseRef(promise2), cell |-> cell]
AdoptR(promise2, cell) ==
    [k |-> "adoptR", v |-> PromiseRef(promise2), cell |-> cell]
NoHandler == [k |-> "undefined", v |-> Undefined]

isFunction(v) == v.k \in {"ret", "throw", "thenAgain", "adoptY", "adoptR"}

isObject(v) == v.k \in {"error", "TypeError", "thenable", "badThen", "promise"}

(***************************************************************************)
(* Whether x.then is a function: a thenable's is, and so is a promise's.   *)
(* Whether reading x.then throws.                                          *)
(***************************************************************************)
ThenIsFunction(x) == x.k \in {"thenable", "promise"}

ThenGetterThrows(x) == x.k = "badThen"

(***************************************************************************)
(* The foreign thenables of the model.  ThenSteps(n) is what the then of   *)
(* thenable n does, in order, with the two callbacks it is handed; later   *)
(* stands for setTimeout(() => ..., 0):                                    *)
(*    1: then(res, rej) { res(42) }                                        *)
(*    2: then(res, rej) { rej(e1) }                                        *)
(*    3: then(res, rej) { res(thenable 1) }                                *)
(*    4: then(res, rej) { res(thenable 3) }                                *)
(*    5: then(res, rej) { res(thenable 2) }                                *)
(*    6: then(res, rej) { res(42); res(43); rej(e1); throw e2 }            *)
(*    7: then(res, rej) { rej(e1); res(42); throw e2 }                     *)
(*    8: then(res, rej) { later res(42); later rej(e1) }                   *)
(*    9: then(res, rej) { res(thenable 10); rej(e1) }                      *)
(*   10: then(res, rej) { later res(42) }                                  *)
(*   11: then(res, rej) { throw e2 }                                       *)
(*   12: then(res, rej) { later res(42); throw e2 }                        *)
(*   13: then(res, rej) { later rej(e1); res(42) }                         *)
(***************************************************************************)
ThenSteps(n) ==
    CASE n = 1 -> << [op |-> "res", v |-> Plain(42)] >>
      [] n = 2 -> << [op |-> "rej", v |-> Err(1)] >>
      [] n = 3 -> << [op |-> "res", v |-> Thenable(1)] >>
      [] n = 4 -> << [op |-> "res", v |-> Thenable(3)] >>
      [] n = 5 -> << [op |-> "res", v |-> Thenable(2)] >>
      [] n = 6 -> << [op |-> "res", v |-> Plain(42)],
                     [op |-> "res", v |-> Plain(43)],
                     [op |-> "rej", v |-> Err(1)],
                     [op |-> "throw", v |-> Err(2)] >>
      [] n = 7 -> << [op |-> "rej", v |-> Err(1)],
                     [op |-> "res", v |-> Plain(42)],
                     [op |-> "throw", v |-> Err(2)] >>
      [] n = 8 -> << [op |-> "resLater", v |-> Plain(42)],
                     [op |-> "rejLater", v |-> Err(1)] >>
      [] n = 9 -> << [op |-> "res", v |-> Thenable(10)],
                     [op |-> "rej", v |-> Err(1)] >>
      [] n = 10 -> << [op |-> "resLater", v |-> Plain(42)] >>
      [] n = 11 -> << [op |-> "throw", v |-> Err(2)] >>
      [] n = 12 -> << [op |-> "resLater", v |-> Plain(42)],
                      [op |-> "throw", v |-> Err(2)] >>
      [] n = 13 -> << [op |-> "rejLater", v |-> Err(1)],
                      [op |-> "res", v |-> Plain(42)] >>
      [] OTHER -> << >>

(***************************************************************************)
(* The program state as one record, so that the code's functions can be    *)
(* written as operators from state to state.                               *)
(***************************************************************************)
Cur ==
    [state |-> state, value |-> value, reason |-> reason,
     resolvedCallbacks |-> resolvedCallbacks,
     rejectedCallbacks |-> rejectedCallbacks,
     parent |-> parent, onFulfilled |-> onFulfilled, onRejected |-> onRejected,
     called |-> called, tasks |-> tasks, log |-> log]

Install(S) ==
    /\ state' = S.state
    /\ value' = S.value
    /\ reason' = S.reason
    /\ resolvedCallbacks' = S.resolvedCallbacks
    /\ rejectedCallbacks' = S.rejectedCallbacks
    /\ parent' = S.parent
    /\ onFulfilled' = S.onFulfilled
    /\ onRejected' = S.onRejected
    /\ called' = S.called
    /\ tasks' = S.tasks
    /\ log' = S.log

(***************************************************************************)
(* nextTick(fn): setTimeout(fn, 0).  Timers of equal delay run in the      *)
(* order they were set.                                                    *)
(***************************************************************************)
RECURSIVE Run(_, _)

\* A faulty variant: fn is called at once instead of in a later turn.
nextTick_sync(S, fn) == Run(S, fn)

\* A faulty variant: the timer set last runs first.
nextTick_lifo(S, fn) == [S EXCEPT !.tasks = <<fn>> \o @]

nextTick(S, fn) == [S EXCEPT !.tasks = Append(@, fn)]

(***************************************************************************)
(* The resolve and reject capabilities of promise p: each only schedules   *)
(* its transition.                                                         *)
(***************************************************************************)
resolve(S, p, v) == nextTick(S, [t |-> "resolve", p |-> p, v |-> v])

reject(S, p, r) == nextTick(S, [t |-> "reject", p |-> p, v |-> r])

(***************************************************************************)
(* The field initialisation of the constructor: a new promise, numbered    *)
(* Len(S.state) + 1, made by a then call on promise par with the handlers  *)
(* onF and onR (par = 0 and no handlers: made by the program).             *)
(***************************************************************************)
constructor(S, par, onF, onR) ==
    [S EXCEPT !.state = Append(@, PENDING),
              !.value = Append(@, Undefined),
              !.reason = Append(@, Undefined),
              !.resolvedCallbacks = Append(@, << >>),
              !.rejectedCallbacks = Append(@, << >>),
              !.parent = Append(@, par),
              !.onFulfilled = Append(@, onF),
              !.onRejected = Append(@, onR)]

(***************************************************************************)
(* then(onFulfilled, onRejected) on promise p: promise2 is the new         *)
(* promise; its executor looks at p's state.                               *)
(***************************************************************************)
\* A faulty variant: on a settled promise, then calls the handler at once.
then_sync(S, p, onF, onR) ==
    LET promise2 == Len(S.state) + 1
        S1 == constructor(S, p, onF, onR)
    IN  IF S1.state[p] = RESOLVED
        THEN Run(S1, [t |-> "onFulfilled", p |-> promise2, v |-> Undefined])
        ELSE IF S1.state[p] = REJECTED
        THEN Run(S1, [t |-> "onRejected", p |-> promise2, v |-> Undefined])
        ELSE [S1 EXCEPT !.resolvedCallbacks[p] = Append(@, promise2),
                        !.rejectedCallbacks[p] = Append(@, promise2)]

\* A faulty variant: then does not look at p's state and always queues.
then_queuesAlways(S, p, onF, onR) ==
    LET promise2 == Len(S.state) + 1
        S1 == constructor(S, p, onF, onR)
    IN  [S1 EXCEPT !.resolvedCallbacks[p] = Append(@, promise2),
                   !.rejectedCallbacks[p] = Append(@, promise2)]

then(S, p, onF, onR) ==
    LET promise2 == Len(S.state) + 1
        S1 == constructor(S, p, onF, onR)
    IN  IF S1.state[p] = RESOLVED
        THEN nextTick(S1, [t |-> "onFulfilled", p |-> promise2, v |-> Undefined])
        ELSE IF S1.state[p] = REJECTED
        THEN nextTick(S1, [t |-> "onRejected", p |-> promise2, v |-> Undefined])
        ELSE [S1 EXCEPT !.resolvedCallbacks[p] = Append(@, promise2),
                        !.rejectedCallbacks[p] = Append(@, promise2)]

(***************************************************************************)
(* resolvePromise(promise2, x, resolve, reject).  cell is the number of    *)
(* the call's called flag.  cbY and cbR are the two callbacks it hands to  *)
(* x.then, catchError its catch block; thenCall is the call of a foreign   *)
(* thenable's then with the two callbacks, steps the steps of that then    *)
(* left to do: a callback the thenable calls in a later turn is a timer of *)
(* its own, in the same timer queue.                                       *)
(***************************************************************************)
RECURSIVE resolvePromise(_, _, _)

\* A faulty variant: y is taken as the value without being resolved further.
cbY_noAdopt(S, promise2, cell, y) ==
    IF S.called[cell] THEN S
    ELSE resolve([S EXCEPT !.called[cell] = TRUE], promise2, y)

cbY(S, promise2, cell, y) ==
    IF S.called[cell] THEN S
    ELSE resolvePromise([S EXCEPT !.called[cell] = TRUE], promise2, y)

\* A faulty variant: the callback does not test the called flag.
cbR_noFlag(S, promise2, cell, r) ==
    reject([S EXCEPT !.called[cell] = TRUE], promise2, r)

cbR(S, promise2, cell, r) ==
    IF S.called[cell] THEN S
    ELSE reject([S EXCEPT !.called[cell] = TRUE], promise2, r)

\* A faulty variant: the catch block calls resolve(error).
catchError_resolves(S, promise2, cell, error) ==
    IF S.called[cell] THEN S
    ELSE resolve([S EXCEPT !.called[cell] = TRUE], promise2, error)

catchError(S, promise2, cell, error) ==
    IF S.called[cell] THEN S
    ELSE reject([S EXCEPT !.called[cell] = TRUE], promise2, error)

RECURSIVE thenCall(_, _, _, _)
thenCall(S, promise2, steps, cell) ==
    IF steps = << >> THEN S
    ELSE LET s == Head(steps) IN
         CASE s.op = "res" ->
                thenCall(cbY(S, promise2, cell, s.v), promise2, Tail(steps), cell)
           [] s.op = "rej" ->
                thenCall(cbR(S, promise2, cell, s.v), promise2, Tail(steps), cell)
           [] s.op = "resLater" ->
                thenCall(nextTick(S, [t |-> "cbY", p |-> promise2, v |-> s.v,
                                      cell |-> cell]),
                         promise2, Tail(steps), cell)
           [] s.op = "rejLater" ->
                thenCall(nextTick(S, [t |-> "cbR", p |-> promise2, v |-> s.v,
                                      cell |-> cell]),
                         promise2, Tail(steps), cell)
           [] OTHER -> \* "throw"
                catchError(S, promise2, cell, s.v)

\* A faulty variant: promise2 === x is not tested.
resolvePromise_noCycleCheck(S, promise2, x) ==
    LET cell == Len(S.called) + 1
        S1 == [S EXCEPT !.called = Append(@, FALSE)]
    IN  IF isObject(x) \/ isFunction(x)
        THEN IF ThenGetterThrows(x)
             THEN catchError(S1, promise2, cell, Err(x.n))
             ELSE IF ThenIsFunction(x)
             THEN IF x.k = "promise"
                  THEN then(S1, x.n, AdoptY(promise2, cell),
                            AdoptR(promise2, cell))
                  ELSE thenCall(S1, promise2, ThenSteps(x.n), cell)
             ELSE resolve(S1, promise2, x)
        ELSE resolve(S1, promise2, x)

resolvePromise(S, promise2, x) ==
    IF x = PromiseRef(promise2)
    THEN reject(S, promise2, CycleError)
    ELSE LET cell == Len(S.called) + 1
             S1 == [S EXCEPT !.called = Append(@, FALSE)]
         IN  IF isObject(x) \/ isFunction(x)
             THEN IF ThenGetterThrows(x)
                  THEN catchError(S1, promise2, cell, Err(x.n))
                  ELSE IF ThenIsFunction(x)
                  THEN IF x.k = "promise"
                       THEN then(S1, x.n, AdoptY(promise2, cell),
                                 AdoptR(promise2, cell))
                       ELSE thenCall(S1, promise2, ThenSteps(x.n), cell)
                  ELSE resolve(S1, promise2, x)
             ELSE resolve(S1, promise2, x)

(***************************************************************************)
(* The handlers then really uses: the argument when it is a function, and  *)
(* otherwise v => v for onFulfilled and e => { throw e } for onRejected.   *)
(***************************************************************************)
Identity == [k |-> "identity", v |-> Undefined]
Rethrow == [k |-> "rethrow", v |-> Undefined]

DefaultOnFulfilled(onF) == IF isFunction(onF) THEN onF ELSE Identity

\* A faulty variant: the default onRejected returns the reason instead of throwing it.
DefaultOnRejected_identity(onR) == IF isFunction(onR) THEN onR ELSE Identity

DefaultOnRejected(onR) == IF isFunction(onR) THEN onR ELSE Rethrow

(***************************************************************************)
(* The call h(arg) made for promise2: the state after it, whether it threw *)
(* and what it returned or threw.  The two callbacks of resolvePromise     *)
(* act on their own promise2 (h.v) and return undefined.                   *)
(***************************************************************************)
Apply(S, h, arg, promise2) ==
    CASE h.k = "ret" -> [S |-> S, threw |-> FALSE, x |-> h.v]
      [] h.k = "throw" -> [S |-> S, threw |-> TRUE, x |-> h.v]
      [] h.k = "thenAgain" ->
            [S |-> then(S, S.parent[promise2], h.v, h.v), threw |-> FALSE,
             x |-> Undefined]
      [] h.k = "identity" -> [S |-> S, threw |-> FALSE, x |-> arg]
      [] h.k = "rethrow" -> [S |-> S, threw |-> TRUE, x |-> arg]
      [] h.k = "adoptY" ->
            [S |-> cbY(S, h.v.n, h.cell, arg), threw |-> FALSE, x |-> Undefined]
      [] h.k = "adoptR" ->
            [S |-> cbR(S, h.v.n, h.cell, arg), threw |-> FALSE, x |-> Undefined]

(***************************************************************************)
(* The body then schedules or queues for promise2, for the outcome which   *)
(* ("F": onFulfilled(this.value), "R": onRejected(this.reason)):           *)
(*   try { x = handler(payload); resolvePromise(promise2, x, ...) }        *)
(*   catch (error) { reject(error) }                                       *)
(***************************************************************************)
\* A faulty variant: the catch block calls resolve(error) instead of reject(error).
Callback_resolveOnCatch(S, promise2, which) ==
    LET p == S.parent[promise2]
        arg == IF which = "F" THEN S.value[p] ELSE S.reason[p]
        h == IF which = "F" THEN DefaultOnFulfilled(S.onFulfilled[promise2])
                            ELSE DefaultOnRejected(S.onRejected[promise2])
        S1 == [S EXCEPT !.log = Append(@, [reg |-> promise2, h |-> which,
                                           arg |-> arg])]
        r == Apply(S1, h, arg, promise2)
    IN  IF r.threw THEN resolve(r.S, promise2, r.x)
        ELSE resolvePromise(r.S, promise2, r.x)

Callback(S, promise2, which) ==
    LET p == S.parent[promise2]
        arg == IF which = "F" THEN S.value[p] ELSE S.reason[p]
        h == IF which = "F" THEN DefaultOnFulfilled(S.onFulfilled[promise2])
                            ELSE DefaultOnRejected(S.onRejected[promise2])
        S1 == [S EXCEPT !.log = Append(@, [reg |-> promise2, h |-> which,
                                           arg |-> arg])]
        r == Apply(S1, h, arg, promise2)
    IN  IF r.threw THEN reject(r.S, promise2, r.x)
        ELSE resolvePromise(r.S, promise2, r.x)

(***************************************************************************)
(* queue.forEach((fn) => fn())                                             *)
(***************************************************************************)
RECURSIVE forEach(_, _, _)

\* A faulty variant: the queue is walked from its last element to its first.
forEach_reverse(S, queue, which) ==
    IF queue = << >> THEN S
    ELSE Callback(forEach(S, Tail(queue), which), Head(queue), which)

forEach(S, queue, which) ==
    IF queue = << >> THEN S
    ELSE forEach(Callback(S, Head(queue), which), Tail(queue), which)

(***************************************************************************)
(* The tasks resolve(value) and reject(reason) schedule.                   *)
(***************************************************************************)
\* A faulty variant: the task does not test this.state === PENDING.
resolveTask_noGuard(S, p, v) ==
    LET S1 == [S EXCEPT !.state[p] = RESOLVED, !.value[p] = v]
    IN  forEach(S1, S1.resolvedCallbacks[p], "F")

\* A faulty variant: the task stores its argument in this.reason.
resolveTask_setsReason(S, p, v) ==
    IF S.state[p] = PENDING
    THEN LET S1 == [S EXCEPT !.state[p] = RESOLVED, !.reason[p] = v]
         IN  forEach(S1, S1.resolvedCallbacks[p], "F")
    ELSE S

resolveTask(S, p, v) ==
    IF S.state[p] = PENDING
    THEN LET S1 == [S EXCEPT !.state[p] = RESOLVED, !.value[p] = v]
         IN  forEach(S1, S1.resolvedCallbacks[p], "F")
    ELSE S

\* A faulty variant: the task does not test this.state === PENDING.
rejectTask_noGuard(S, p, r) ==
    LET S1 == [S EXCEPT !.state[p] = REJECTED, !.reason[p] = r]
    IN  forEach(S1, S1.rejectedCallbacks[p], "R")

\* A faulty variant: the task walks resolvedCallbacks.
rejectTask_drainsResolved(S, p, r) ==
    IF S.state[p] = PENDING
    THEN LET S1 == [S EXCEPT !.state[p] = REJECTED, !.reason[p] = r]
         IN  forEach(S1, S1.resolvedCallbacks[p], "F")
    ELSE S

rejectTask(S, p, r) ==
    IF S.state[p] = PENDING
    THEN LET S1 == [S EXCEPT !.state[p] = REJECTED, !.reason[p] = r]
         IN  forEach(S1, S1.rejectedCallbacks[p], "R")
    ELSE S

(***************************************************************************)
(* One task of the task queue, run to its end.                             *)
(***************************************************************************)
Run(S, fn) ==
    CASE fn.t = "resolve" -> resolveTask(S, fn.p, fn.v)
      [] fn.t = "reject" -> rejectTask(S, fn.p, fn.v)
      [] fn.t = "onFulfilled" -> Callback(S, fn.p, "F")
      [] fn.t = "onRejected" -> Callback(S, fn.p, "R")
      [] fn.t = "cbY" -> cbY(S, fn.p, fn.cell, fn.v)
      [] fn.t = "cbR" -> cbR(S, fn.p, fn.cell, fn.v)

(***************************************************************************)
(* new Promise(executor): the executor exec calls the capabilities as      *)
(* exec.steps says and then throws exec.e if exec.throws.                  *)
(* The constructor catches what the executor throws.                       *)
(***************************************************************************)
RECURSIVE executorSteps(_, _, _)
executorSteps(S, p, steps) ==
    IF steps = << >> THEN S
    ELSE LET s == Head(steps) IN
         executorSteps(IF s.op = "resolve" THEN resolve(S, p, s.v)
                                            ELSE reject(S, p, s.v),
                       p, Tail(steps))

\* A faulty variant: the constructor has no try/catch around the executor call.
newPromise_noCatch(S, exec) ==
    LET p == Len(S.state) + 1
        S1 == constructor(S, 0, NoHandler, NoHandler)
        S2 == executorSteps(S1, p, exec.steps)
    IN  [S |-> S2, threw |-> exec.throws]

newPromise(S, exec) ==
    LET p == Len(S.state) + 1
        S1 == constructor(S, 0, NoHandler, NoHandler)
        S2 == executorSteps(S1, p, exec.steps)
    IN  IF exec.throws
        THEN [S |-> reject(S2, p, exec.e), threw |-> FALSE]
        ELSE [S |-> S2, threw |-> FALSE]

(***************************************************************************)
(* What the program does with the library.                                 *)
(***************************************************************************)
DeferredExecutor == [steps |-> << >>, throws |-> FALSE, e |-> Undefined]
ThrowingExecutor == [steps |-> << >>, throws |-> TRUE, e |-> Err(2)]
ResolveThenThrow ==
    [steps |-> << [op |-> "resolve", v |-> Plain(5)] >>, throws |-> TRUE,
     e |-> Err(2)]
RejectThenThrow ==
    [steps |-> << [op |-> "reject", v |-> Err(1)] >>, throws |-> TRUE,
     e |-> Err(2)]

(***************************************************************************)
(* The promises the program holds: promise 1, which it constructed, and    *)
(* those then returned to it.  The promises resolvePromise gets back from  *)
(* x.then are dropped.                                                     *)
(***************************************************************************)
Promises == 1..Len(state)

Internal(p) == onFulfilled[p].k = "adoptY"

Held == {p \in Promises : ~Internal(p)}

Empty ==
    [state |-> << >>, value |-> << >>, reason |-> << >>,
     resolvedCallbacks |-> << >>, rejectedCallbacks |-> << >>,
     parent |-> << >>, onFulfilled |-> << >>, onRejected |-> << >>,
     called |-> << >>, tasks |-> << >>, log |-> << >>]

(***************************************************************************)
(* The state after the program has constructed promise 1 with              *)
(* new Promise(executor): it holds the promise and its two capabilities.   *)
(* DeferredExecutor is the executor of Promise.deferred(), which only      *)
(* keeps the capabilities.                                                 *)
(***************************************************************************)
NoCall == [op |-> "none", v |-> Undefined]

FirstCallOf(exec) ==
    IF exec.steps # << >> THEN Head(exec.steps)
    ELSE IF exec.throws THEN [op |-> "reject", v |-> exec.e]
    ELSE NoCall

Constructed(executors) ==
    \E exec \in executors :
      LET r == newPromise(Empty, exec)
      IN  /\ state = r.S.state
          /\ value = r.S.value
          /\ reason = r.S.reason
          /\ resolvedCallbacks = r.S.resolvedCallbacks
          /\ rejectedCallbacks = r.S.rejectedCallbacks
          /\ parent = r.S.parent
          /\ onFulfilled = r.S.onFulfilled
          /\ onRejected = r.S.onRejected
          /\ called = r.S.called
          /\ tasks = r.S.tasks
          /\ log = r.S.log
          /\ calls = 0
          /\ threw = r.threw
          /\ executor = exec
          /\ firstCall = FirstCallOf(exec)

(***************************************************************************)
(* A call of the resolve capability of promise 1 with one of values.       *)
(***************************************************************************)
CallResolve(values) ==
    /\ calls < MaxCalls
    /\ \E v \in values :
         /\ Install(resolve(Cur, 1, v))
         /\ firstCall' = IF firstCall = NoCall
                          THEN [op |-> "resolve", v |-> v] ELSE firstCall
    /\ calls' = calls + 1
    /\ UNCHANGED <<threw, executor>>

(***************************************************************************)
(* A call of the reject capability of promise 1 with one of reasons.       *)
(***************************************************************************)
CallReject(reasons) ==
    /\ calls < MaxCalls
    /\ \E r \in reasons :
         /\ Install(reject(Cur, 1, r))
         /\ firstCall' = IF firstCall = NoCall
                          THEN [op |-> "reject", v |-> r] ELSE firstCall
    /\ calls' = calls + 1
    /\ UNCHANGED <<threw, executor>>

(***************************************************************************)
(* A call p.then(onFulfilled, onRejected) by the program, on a promise it  *)
(* holds, with one of the argument pairs args.                             *)
(***************************************************************************)
CallThen(args) ==
    /\ Len(state) < MaxPromises
    /\ \E p \in Held : \E h \in args : Install(then(Cur, p, h[1], h[2]))
    /\ UNCHANGED <<calls, threw, executor, firstCall>>

(***************************************************************************)
(* The event loop runs the first task of the queue.                        *)
(***************************************************************************)
RunTask ==
    /\ tasks # << >>
    /\ Install(Run([Cur EXCEPT !.tasks = Tail(@)], Head(tasks)))
    /\ UNCHANGED <<calls, threw, executor, firstCall>>

(***************************************************************************)
(* The program of Spec: promise 1 is a deferred's or has an executor that  *)
(* throws; the program resolves it with 5 or with the thenable             *)
(* { then(res) { res(42) } }, rejects it with e1, and calls                *)
(*   p.then()    p.then(v => 7)    p.then(v => { throw e3 },               *)
(*                                        e => { throw e3 })               *)
(***************************************************************************)
Init == Constructed({DeferredExecutor, ThrowingExecutor})

ThenArgs ==
    {<<NoHandler, NoHandler>>,
     <<Ret(Plain(7)), NoHandler>>,
     <<Throw(Err(3)), Throw(Err(3))>>}

ResolveInputs == {Plain(5), Thenable(1)}

Resolve == CallResolve(ResolveInputs)

Reject == CallReject({Err(1)})

Then == CallThen(ThenArgs)

Next ==
    \/ Resolve
    \/ Reject
    \/ Then
    \/ RunTask

Spec == Init /\ [][Next]_vars

(***************************************************************************)
(* The program of SpecValues: promise 1 is a deferred's; the program       *)
(* resolves it with 5 or with the thenable { then(res) { res(42) } },       *)
(* rejects it with e1 or with the thenable { then(res, rej) { rej(e1) } }, *)
(* and calls  p.then()  and  p.then(v => 7).                               *)
(***************************************************************************)
InitValues == Constructed({DeferredExecutor})

ResolveValuesInputs == {Plain(5), Thenable(1)}

RejectValuesInputs == {Err(1), Thenable(2)}

ThenValuesInputs == {<<NoHandler, NoHandler>>, <<Ret(Plain(7)), NoHandler>>}

ResolveValues == CallResolve(ResolveValuesInputs)

RejectValues == CallReject(RejectValuesInputs)

ThenValues == CallThen(ThenValuesInputs)

NextValues ==
    \/ ResolveValues
    \/ RejectValues
    \/ ThenValues
    \/ RunTask

SpecValues == InitValues /\ [][NextValues]_vars

(***************************************************************************)
(* The program of SpecSelf: promise 1 is a deferred's; the program         *)
(* resolves it with 5 or with promise 1 itself, rejects it with e1, and    *)
(* calls  p.then(v => 7)  and                                              *)
(* p.then(v => { throw e3 }, e => { throw e3 }).                           *)
(***************************************************************************)
InitSelf == Constructed({DeferredExecutor})

ResolveSelfInputs == {Plain(5), PromiseRef(1)}

ThenSelfInputs ==
    {<<Ret(Plain(7)), NoHandler>>, <<Throw(Err(3)), Throw(Err(3))>>}

ResolveSelf == CallResolve(ResolveSelfInputs)

RejectSelf == CallReject({Err(1)})

ThenSelf == CallThen(ThenSelfInputs)

NextSelf ==
    \/ ResolveSelf
    \/ RejectSelf
    \/ ThenSelf
    \/ RunTask

SpecSelf == InitSelf /\ [][NextSelf]_vars

(***************************************************************************)
(* The program of SpecHandlers: promise 1 is a deferred's; the program     *)
(* resolves it with 5, rejects it with e1, and calls                       *)
(*   p.then(v => { throw e3 }, e => { throw e3 })                          *)
(*   p.then(null, e => 8)                                                  *)
(*   p.then(null, e => thenable1)                                          *)
(*   p.then(null, e => bad4)    where reading bad4.then throws e4          *)
(***************************************************************************)
InitHandlers == Constructed({DeferredExecutor})

ResolveHandlers == CallResolve({Plain(5)})

RejectHandlers == CallReject({Err(1)})

ThenHandlersInputs ==
    {<<Throw(Err(3)), Throw(Err(3))>>,
     <<NoHandler, Ret(Plain(8))>>,
     <<NoHandler, Ret(Thenable(1))>>,
     <<NoHandler, Ret(BadThen(4))>>}

ThenHandlers == CallThen(ThenHandlersInputs)

NextHandlers ==
    \/ ResolveHandlers
    \/ RejectHandlers
    \/ ThenHandlers
    \/ RunTask

SpecHandlers == InitHandlers /\ [][NextHandlers]_vars

(***************************************************************************)
(* The program of SpecCycle: promise 1 is a deferred's; the program        *)
(* resolves it with 5, rejects it with e1, and calls                       *)
(*   p.then()                                                              *)
(*   const promise2 = p.then(v => promise2, e => promise2)                 *)
(*   p.then(v => promise1, e => promise1)                                  *)
(***************************************************************************)
InitCycle == Constructed({DeferredExecutor})

ResolveCycle == CallResolve({Plain(5)})

RejectCycle == CallReject({Err(1)})

ThenCycle ==
    CallThen({<<NoHandler, NoHandler>>,
              <<Ret(PromiseRef(Len(state) + 1)), Ret(PromiseRef(Len(state) + 1))>>,
              <<Ret(PromiseRef(1)), Ret(PromiseRef(1))>>})

NextCycle ==
    \/ ResolveCycle
    \/ RejectCycle
    \/ ThenCycle
    \/ RunTask

SpecCycle == InitCycle /\ [][NextCycle]_vars

(***************************************************************************)
(* The program of SpecAdopt: promise 1 is a deferred's; the program        *)
(* resolves it with 5, rejects it with e1, and calls, with the thenables   *)
(* t1 .. t5 of ThenSteps,                                                  *)
(*   p.then(v => t1)                                                       *)
(*   p.then(v => t5, e => t3)                                              *)
(*   p.then(v => t4, e => t2)                                              *)
(***************************************************************************)
InitAdopt == Constructed({DeferredExecutor})

ResolveAdopt == CallResolve({Plain(5)})

RejectAdopt == CallReject({Err(1)})

ThenAdoptInputs ==
    {<<Ret(Thenable(1)), NoHandler>>,
     <<Ret(Thenable(5)), Ret(Thenable(3))>>,
     <<Ret(Thenable(4)), Ret(Thenable(2))>>}

ThenAdopt == CallThen(ThenAdoptInputs)

NextAdopt ==
    \/ ResolveAdopt
    \/ RejectAdopt
    \/ ThenAdopt
    \/ RunTask

SpecAdopt == InitAdopt /\ [][NextAdopt]_vars

(***************************************************************************)
(* The program of SpecGuard: promise 1 is a deferred's; the program        *)
(* resolves it with 5, rejects it with e1, and calls, with the thenables   *)
(* t6 .. t9 and t13 of ThenSteps,                                          *)
(*   p.then(v => t6, e => t7)                                              *)
(*   p.then(v => t9, e => t8)                                              *)
(*   p.then(v => t13)                                                      *)
(***************************************************************************)
InitGuard == Constructed({DeferredExecutor})

ResolveGuard == CallResolve({Plain(5)})

RejectGuard == CallReject({Err(1)})

ThenGuardInputs ==
    {<<Ret(Thenable(6)), Ret(Thenable(7))>>,
     <<Ret(Thenable(9)), Ret(Thenable(8))>>,
     <<Ret(Thenable(13)), NoHandler>>}

ThenGuard == CallThen(ThenGuardInputs)

NextGuard ==
    \/ ResolveGuard
    \/ RejectGuard
    \/ ThenGuard
    \/ RunTask

SpecGuard == InitGuard /\ [][NextGuard]_vars

(***************************************************************************)
(* The program of SpecThrow: promise 1 is a deferred's; the program        *)
(* resolves it with 5, rejects it with e1, and calls, with the thenables   *)
(* t11 and t12 of ThenSteps and b = { get then() { throw e4 } },           *)
(*   p.then()                                                              *)
(*   p.then(v => b, e => t11)                                              *)
(*   p.then(v => t12, e => b)                                              *)
(***************************************************************************)
InitThrow == Constructed({DeferredExecutor})

ResolveThrow == CallResolve({Plain(5)})

RejectThrow == CallReject({Err(1)})

ThenThrowInputs ==
    {<<NoHandler, NoHandler>>,
     <<Ret(BadThen(4)), Ret(Thenable(11))>>,
     <<Ret(Thenable(12)), Ret(BadThen(4))>>}

ThenThrow == CallThen(ThenThrowInputs)

NextThrow ==
    \/ ResolveThrow
    \/ RejectThrow
    \/ ThenThrow
    \/ RunTask

SpecThrow == InitThrow /\ [][NextThrow]_vars

(***************************************************************************)
(* The program of SpecFair: promise 1 is a deferred's; the program         *)
(* resolves it with 5, rejects it with e1, and calls  p.then()  and        *)
(* p.then(v => 7, e => { throw e3 }).  The timer queue is fair: a timer    *)
(* that was set is run, so the event loop does not stop while the queue    *)
(* holds a task.  FairTimers is WF_vars(RunTask) with its enabling         *)
(* condition written out: in this program RunTask is enabled exactly when  *)
(* the queue holds a task, and running a task always changes the queue.    *)
(***************************************************************************)
InitFair == Constructed({DeferredExecutor})

ResolveFair == CallResolve({Plain(5)})

RejectFair == CallReject({Err(1)})

ThenFairInputs ==
    {<<NoHandler, NoHandler>>, <<Ret(Plain(7)), Throw(Err(3))>>}

ThenFair == CallThen(ThenFairInputs)

NextFair ==
    \/ ResolveFair
    \/ RejectFair
    \/ ThenFair
    \/ RunTask

RunTaskEnabled == tasks # << >>

FairTimers == <>[]RunTaskEnabled => []<><<RunTask>>_vars

SpecFair == InitFair /\ [][NextFair]_vars /\ FairTimers

\* FairTimers reads RunTaskEnabled for the enabling condition of RunTask.
RunTaskEnabledIsEnabled == RunTaskEnabled <=> ENABLED <<RunTask>>_vars

(***************************************************************************)
(* The program of SpecExecutors: promise 1 is                              *)
(*   new Promise((resolve, reject) => { resolve(5); throw e2 })   or       *)
(*   new Promise((resolve, reject) => { reject(e1); throw e2 })            *)
(* and the program calls  p.then()  and                                    *)
(* p.then(v => 7, e => { throw e3 }).  It has no capability to call: the   *)
(* executor kept none.                                                     *)
(***************************************************************************)
InitExecutors == Constructed({ResolveThenThrow, RejectThenThrow})

ThenExecutorsInputs ==
    {<<NoHandler, NoHandler>>, <<Ret(Plain(7)), Throw(Err(3))>>}

ThenExecutors == CallThen(ThenExecutorsInputs)

NextExecutors ==
    \/ ThenExecutors
    \/ RunTask

SpecExecutors == InitExecutors /\ [][NextExecutors]_vars

(***************************************************************************)
(* The program of SpecDrain: promise 1 is a deferred's; the program        *)
(* resolves it with 5, rejects it with e1, and calls                       *)
(*   p.then(v => 7, e => 7)                                                *)
(*   p.then(again, again)   with  again = () => { p.then(h3, h3) }  and    *)
(*                                h3 = () => 9                             *)
(* The program calls then while fewer than MaxPromises promises were made; *)
(* the promises the handlers make come on top of those.                    *)
(***************************************************************************)
H3 == Ret(Plain(9))

InitDrain == Constructed({DeferredExecutor})

ResolveDrain == CallResolve({Plain(5)})

RejectDrain == CallReject({Err(1)})

ThenDrainInputs ==
    {<<Ret(Plain(7)), Ret(Plain(7))>>,
     <<ThenAgain(H3), ThenAgain(H3)>>}

ThenDrain == CallThen(ThenDrainInputs)

NextDrain ==
    \/ ResolveDrain
    \/ RejectDrain
    \/ ThenDrain
    \/ RunTask

SpecDrain == InitDrain /\ [][NextDrain]_vars

(***************************************************************************)
(* The fields of a promise have their types and every promise has each.    *)
(***************************************************************************)
TypeOK ==
    /\ \A p \in Promises : state[p] \in {PENDING, RESOLVED, REJECTED}
    /\ Len(value) = Len(state)
    /\ Len(reason) = Len(state)
    /\ threw \in BOOLEAN

(***************************************************************************)
(* Predicates over the state that the properties below are stated with.   *)
(***************************************************************************)
Quiescent == tasks = << >>

Settled(p) == state[p] # PENDING

\* The then registrations: the promises a then call made.
Registrations == {p \in Promises : parent[p] # 0}

\* Registration r had a handler invoked.
Invoked(r) == \E i \in DOMAIN log : log[i].reg = r

\* Registration r was made while its parent was PENDING.
Queued(r) ==
    \E i \in DOMAIN resolvedCallbacks[parent[r]] :
        resolvedCallbacks[parent[r]][i] = r

\* A step that is a call of resolve or reject by the program.
CapabilityCall == calls' = calls + 1

\* The handler that invocation i of the log called, as then was given it.
HandlerOf(i) ==
    IF log[i].h = "F" THEN onFulfilled[log[i].reg] ELSE onRejected[log[i].reg]

\* The task queue holds the task of a capability call on promise p.
Scheduled(p, op, v) ==
    \E i \in DOMAIN tasks : tasks[i] = [t |-> op, p |-> p, v |-> v]

(***************************************************************************)
(* C1.  State monotonicity: once a promise's state is no longer PENDING,   *)
(* no step (no call of resolve or reject, no task) changes its state, its  *)
(* value or its reason.                                                    *)
(***************************************************************************)
C1_Monotonic ==
    [][\A p \in Promises :
         Settled(p) => /\ state'[p] = state[p]
                       /\ value'[p] = value[p]
                       /\ reason'[p] = reason[p]]_vars

\* Promise 1 is settled and the task of a second capability call has run.
C1_Witness ==
    /\ calls = MaxCalls
    /\ Quiescent
    /\ state[1] = REJECTED
    /\ reason[1] = Err(1)
    /\ executor = DeferredExecutor

(***************************************************************************)
(* C2.  Self-resolution: when the first capability call on promise 1 is    *)
(* resolve(promise 1), the promise is never FULFILLED, and once the task   *)
(* queue is empty it is REJECTED with the cycle error.                     *)
(***************************************************************************)
C2_SelfResolutionRejected ==
    firstCall = [op |-> "resolve", v |-> PromiseRef(1)] =>
        /\ state[1] # RESOLVED
        /\ Quiescent => state[1] = REJECTED /\ reason[1] = CycleError

(***************************************************************************)
(* C3.  Thenable adoption through resolve: when the first capability call  *)
(* on promise 1 is resolve({ then(res) { res(42) } }), the promise is      *)
(* never FULFILLED with the thenable itself, and once the task queue is    *)
(* empty it is FULFILLED with 42.                                          *)
(***************************************************************************)
C3_ThenableAdopted ==
    firstCall = [op |-> "resolve", v |-> Thenable(1)] =>
        /\ ~(state[1] = RESOLVED /\ value[1] = Thenable(1))
        /\ Quiescent => state[1] = RESOLVED /\ value[1] = Plain(42)

\* Of two then registrations made on the same promise while it was PENDING,
\* the later one has a handler invoked only after the earlier one had.
C4_InOrder ==
    \A r1, r2 \in Registrations :
        /\ parent[r1] = parent[r2]
        /\ r1 < r2
        /\ Queued(r1)
        /\ Queued(r2)
        /\ Invoked(r2)
        => \E i, j \in DOMAIN log :
             /\ i < j
             /\ log[i].reg = r1
             /\ log[j].reg = r2
             /\ log[i].h = log[j].h

(***************************************************************************)
(* C4.  Registration order: of two then registrations made on the same     *)
(* promise while it was PENDING, the later one has a handler invoked only  *)
(* after the earlier one had one invoked, and no call of resolve or reject *)
(* invokes a handler before it returns.                                    *)
(***************************************************************************)
C4_RegistrationOrder ==
    /\ []C4_InOrder
    /\ [][CapabilityCall => log' = log]_vars

\* Two registrations made on promise 1 while it was PENDING have both had
\* their onFulfilled invoked.
C4_Witness ==
    \E r1, r2 \in Registrations :
        /\ parent[r1] = 1
        /\ parent[r2] = 1
        /\ r1 < r2
        /\ Queued(r1)
        /\ Queued(r2)
        /\ state[1] = RESOLVED
        /\ \E i, j \in DOMAIN log :
             /\ log[i] = [reg |-> r1, h |-> "F", arg |-> value[1]]
             /\ log[j] = [reg |-> r2, h |-> "F", arg |-> value[1]]

(***************************************************************************)
(* C5.  Asynchrony: (a) a call of resolve or reject returns with every     *)
(* promise's state, value and reason as they were and no handler invoked;  *)
(* (b) a call of then, on a promise in any state, returns with no handler  *)
(* invoked and no promise's state changed.                                 *)
(***************************************************************************)
C5_Asynchrony ==
    [][/\ CapabilityCall =>
            /\ state' = state
            /\ value' = value
            /\ reason' = reason
            /\ log' = log
       /\ Then =>
            /\ log' = log
            /\ \A p \in Promises : state'[p] = state[p]]_vars

\* A then call on a settled promise has returned, its handler waits in the
\* task queue, and so does the transition of a capability call.
C5_Witness ==
    /\ \E r \in Registrations :
         /\ Settled(parent[r])
         /\ ~Queued(r)
         /\ ~Invoked(r)
         /\ \E i \in DOMAIN tasks :
              tasks[i].p = r /\ tasks[i].t \in {"onFulfilled", "onRejected"}
    /\ \E i \in DOMAIN tasks : tasks[i].t \in {"resolve", "reject"}

(***************************************************************************)
(* C6.  First call wins: promise 1 is only ever settled as the first call  *)
(* of one of its capabilities says (FULFILLED with v for resolve(v),       *)
(* REJECTED with e for reject(e)), whatever calls follow and whenever, and *)
(* once the task queue is empty it is settled.                             *)
(***************************************************************************)
C6_FirstCallWins ==
    /\ state[1] = RESOLVED => firstCall = [op |-> "resolve", v |-> value[1]]
    /\ state[1] = REJECTED => firstCall = [op |-> "reject", v |-> reason[1]]
    /\ Quiescent /\ firstCall # NoCall => Settled(1)

\* resolve(5) then another call on a deferred: FULFILLED with 5.
C6_Witness ==
    /\ executor = DeferredExecutor
    /\ firstCall = [op |-> "resolve", v |-> Plain(5)]
    /\ calls = MaxCalls
    /\ Quiescent
    /\ state[1] = RESOLVED
    /\ value[1] = Plain(5)
    /\ reason[1] = Undefined

(***************************************************************************)
(* C7.  Handler error isolation.  ErrorIsolation(returns) says, for every  *)
(* invocation of the log whose handler threw e, made for registration r:   *)
(*   - r is never FULFILLED, is only REJECTED with e, and is REJECTED once *)
(*     the task queue is empty;                                            *)
(*   - the parent of r is still settled as the handler was invoked for;    *)
(*   - every r.then(null, h) with h returning one of returns has only h    *)
(*     invoked, with e, and is never REJECTED, is only FULFILLED with what *)
(*     h returns, and is FULFILLED once the task queue is empty.           *)
(***************************************************************************)
ErrorIsolation(returns) ==
    \A i \in DOMAIN log :
        HandlerOf(i).k = "throw" =>
            LET r == log[i].reg
                e == HandlerOf(i).v
            IN  /\ state[r] # RESOLVED
                /\ state[r] = REJECTED => reason[r] = e
                /\ Quiescent => state[r] = REJECTED
                /\ log[i].h = "F" =>
                     /\ state[parent[r]] = RESOLVED
                     /\ value[parent[r]] = log[i].arg
                /\ log[i].h = "R" =>
                     /\ state[parent[r]] = REJECTED
                     /\ reason[parent[r]] = log[i].arg
                /\ \A r3 \in Registrations :
                     /\ parent[r3] = r
                     /\ ~isFunction(onFulfilled[r3])
                     /\ onRejected[r3].k = "ret"
                     /\ onRejected[r3].v \in returns
                     => /\ \A j \in DOMAIN log :
                             log[j].reg = r3 =>
                                 log[j].h = "R" /\ log[j].arg = e
                        /\ state[r3] # REJECTED
                        /\ state[r3] = RESOLVED =>
                             value[r3] = onRejected[r3].v
                        /\ Quiescent =>
                             Invoked(r3) /\ state[r3] = RESOLVED

\* The values the handlers h of SpecHandlers return.
Returns == {Plain(8), Thenable(1), BadThen(4)}

\* The values among them that the resolution procedure fulfils with as they
\* are: reading their then does not throw and gives no function.
ReturnsFulfilling ==
    {x \in Returns : ~ThenGetterThrows(x) /\ ~ThenIsFunction(x)}

\* What becomes of the promise r3 of then(null, h) on a promise rejected by
\* a throwing handler when h returns a thenable or a value whose then getter
\* throws: the thenable's outcome, 42, is taken, and the getter's error e4
\* rejects r3.
ReturnAdoptedOrRejected ==
    \A i \in DOMAIN log :
        HandlerOf(i).k = "throw" =>
            \A r3 \in Registrations :
                /\ parent[r3] = log[i].reg
                /\ ~isFunction(onFulfilled[r3])
                /\ onRejected[r3].k = "ret"
                => /\ onRejected[r3].v = Thenable(1) =>
                        /\ state[r3] # REJECTED
                        /\ state[r3] = RESOLVED => value[r3] = Plain(42)
                        /\ Quiescent => state[r3] = RESOLVED
                   /\ onRejected[r3].v = BadThen(4) =>
                        /\ state[r3] # RESOLVED
                        /\ state[r3] = REJECTED => reason[r3] = Err(4)
                        /\ Quiescent => state[r3] = REJECTED

\* C7 as claimed: whatever h returns, the promise of then(null, h) is
\* FULFILLED with it.
C7_ErrorIsolationAnyReturn == ErrorIsolation(Returns)

\* C7 as amended: the promise of then(null, h) is FULFILLED with what h
\* returns when that is not a thenable and reading its then does not throw;
\* a returned thenable is adopted, and the error thrown by reading then
\* rejects the promise.
C7_ErrorIsolation ==
    /\ ErrorIsolation(ReturnsFulfilling)
    /\ ReturnAdoptedOrRejected

\* onFulfilled threw e3 for promise 2, promise 3 = promise2.then(null, e => 8)
\* had its onRejected invoked with e3 and is FULFILLED with 8.
C7_Witness ==
    \E i, j \in DOMAIN log :
        /\ log[i].h = "F"
        /\ HandlerOf(i) = Throw(Err(3))
        /\ state[log[i].reg] = REJECTED
        /\ parent[log[j].reg] = log[i].reg
        /\ log[j].h = "R"
        /\ log[j].arg = Err(3)
        /\ HandlerOf(j) = Ret(Plain(8))
        /\ state[log[j].reg] = RESOLVED
        /\ value[log[j].reg] = Plain(8)

(***************************************************************************)
(* C8.  Default value pass-through: a promise returned by p.then() with no *)
(* onFulfilled, on a p that is FULFILLED with v, is never REJECTED, is     *)
(* only FULFILLED with v, and is FULFILLED once the task queue is empty.   *)
(***************************************************************************)
C8_DefaultPassThrough ==
    \A r \in Registrations :
        ~isFunction(onFulfilled[r]) /\ state[parent[r]] = RESOLVED =>
            /\ state[r] # REJECTED
            /\ state[r] = RESOLVED => value[r] = value[parent[r]]
            /\ Quiescent => state[r] = RESOLVED

(***************************************************************************)
(* C9.  Default rejection propagation: a promise returned by a then call   *)
(* with no onRejected, on a promise that is REJECTED with r, is never      *)
(* FULFILLED, is only REJECTED with r, is REJECTED once the task queue is  *)
(* empty, and its onFulfilled is never invoked; so it is for every link of *)
(* a chain of such calls.                                                  *)
(***************************************************************************)
C9_RejectionPropagates ==
    \A r \in Registrations :
        ~isFunction(onRejected[r]) /\ state[parent[r]] = REJECTED =>
            /\ state[r] # RESOLVED
            /\ state[r] = REJECTED => reason[r] = reason[parent[r]]
            /\ Quiescent => state[r] = REJECTED
            /\ \A i \in DOMAIN log : log[i].reg = r => log[i].h = "R"

\* A chain of two then calls without onRejected, the first with an
\* onFulfilled, on a promise rejected with a thenable: all three are
\* REJECTED with that thenable.
C9_Witness ==
    /\ Len(state) = 3
    /\ parent[2] = 1
    /\ parent[3] = 2
    /\ onFulfilled[2] = Ret(Plain(7))
    /\ ~isFunction(onRejected[2])
    /\ ~isFunction(onRejected[3])
    /\ \A p \in 1..3 : state[p] = REJECTED /\ reason[p] = Thenable(2)
    /\ log = << [reg |-> 2, h |-> "R", arg |-> Thenable(2)],
                [reg |-> 3, h |-> "R", arg |-> Thenable(2)] >>

(***************************************************************************)
(* C10.  Executor error: when the executor throws e without having called  *)
(* a capability, the constructor does not throw; as long as the promise is *)
(* PENDING the rejection with e is in the task queue; the promise is never *)
(* FULFILLED, is only REJECTED with e, and is REJECTED once the task queue *)
(* is empty.                                                               *)
(***************************************************************************)
C10_ExecutorError ==
    executor.throws /\ executor.steps = << >> =>
        /\ ~threw
        /\ state[1] = PENDING => Scheduled(1, "reject", executor.e)
        /\ state[1] # RESOLVED
        /\ state[1] = REJECTED => reason[1] = executor.e
        /\ Quiescent => state[1] = REJECTED

\* The executor threw e2 and the promise is REJECTED with e2, after calls
\* of its capabilities.
C10_Witness ==
    /\ executor = ThrowingExecutor
    /\ calls = MaxCalls
    /\ state[1] = REJECTED
    /\ reason[1] = Err(2)
    /\ value[1] = Undefined

(***************************************************************************)
(* C11.  Cycle through then: when the handler invoked for                  *)
(* promise2 = p.then(h, h) returned promise2 itself, promise2 is never     *)
(* FULFILLED, is only REJECTED with the cycle error, and is not left       *)
(* PENDING: from the handler's return on, its rejection with the cycle     *)
(* error is in the task queue until it is REJECTED.                        *)
(***************************************************************************)
ReturnedItself(r) ==
    \E i \in DOMAIN log : log[i].reg = r /\ HandlerOf(i) = Ret(PromiseRef(r))

C11_CycleThroughThen ==
    \A r \in Registrations :
        ReturnedItself(r) =>
            /\ state[r] # RESOLVED
            /\ state[r] = REJECTED => reason[r] = CycleError
            /\ state[r] = PENDING => Scheduled(r, "reject", CycleError)
            /\ Quiescent => state[r] = REJECTED

\* Promise 1 is FULFILLED with 5, the onFulfilled of promise 2 returned
\* promise 2, and promise 2 is REJECTED with the cycle error.
C11_Witness ==
    /\ Len(state) >= 2
    /\ state[1] = RESOLVED
    /\ onFulfilled[2] = Ret(PromiseRef(2))
    /\ log = << [reg |-> 2, h |-> "F", arg |-> Plain(5)] >>
    /\ state[2] = REJECTED
    /\ reason[2] = CycleError
    /\ value[2] = Undefined

(***************************************************************************)
(* C12.  Nested thenable adoption in then: when the handler invoked for a  *)
(* promise returned by then returned a thenable at the head of a chain of  *)
(* thenables (a thenable that resolves with a thenable, and so on, one to  *)
(* three deep), the promise is FULFILLED only with the value v the         *)
(* innermost thenable resolves with, never with a thenable of the chain,   *)
(* and is FULFILLED once the task queue is empty; when a thenable of the   *)
(* chain calls its second callback with r, the promise is never FULFILLED, *)
(* is REJECTED only with r, and is REJECTED once the task queue is empty.  *)
(***************************************************************************)
\* The handler invoked for registration r returned x.
Returned(r, x) ==
    \E i \in DOMAIN log : log[i].reg = r /\ HandlerOf(i) = Ret(x)

\* Promise r settles to st with payload, and to nothing else.
SettlesAs(r, st, payload) ==
    /\ state[r] \in {PENDING, st}
    /\ state[r] = RESOLVED => value[r] = payload
    /\ state[r] = REJECTED => reason[r] = payload
    /\ Quiescent => state[r] = st

\* The chains: thenables 1, 3 and 4 end in res(42), one, two and three
\* deep; thenables 2 and 5 end in rej(e1), one and two deep.
ChainsResolving == {1, 3, 4}
ChainsRejecting == {2, 5}

C12_NestedAdoption ==
    \A r \in Registrations :
        /\ \A n \in ChainsResolving :
             Returned(r, Thenable(n)) => SettlesAs(r, RESOLVED, Plain(42))
        /\ \A n \in ChainsRejecting :
             Returned(r, Thenable(n)) => SettlesAs(r, REJECTED, Err(1))

\* Promise 2's onFulfilled returned the chain of three thenables and
\* promise 2 is FULFILLED with 42; promise 3's onFulfilled returned the
\* chain whose inner thenable rejects and promise 3 is REJECTED with e1.
C12_Witness ==
    /\ Len(state) = 3
    /\ Returned(2, Thenable(4))
    /\ state[2] = RESOLVED
    /\ value[2] = Plain(42)
    /\ parent[3] = 2
    /\ Returned(3, Thenable(5))
    /\ state[3] = REJECTED
    /\ reason[3] = Err(1)

(***************************************************************************)
(* C13.  Misbehaving-thenable guard: when the handler invoked for a        *)
(* promise returned by then returned a thenable whose then calls its       *)
(* callbacks several times, at once or in later turns, and may throw after *)
(* a call, the promise settles as the first callback call says and as      *)
(* nothing else: every later call and the thrown error are ignored.        *)
(*    6: res(42) is first (then res(43), rej(e1), throw e2);               *)
(*    7: rej(e1) is first (then res(42), throw e2);                        *)
(*    8: the later res(42) runs before the later rej(e1);                  *)
(*    9: res(thenable 10) is first (then rej(e1)), and thenable 10         *)
(*       resolves with 42 in a later turn;                                 *)
(*   13: res(42) is called at once, the later rej(e1) after it.            *)
(***************************************************************************)
\* The thenables whose first callback call is res.
FirstResolves == {6, 8, 9, 13}

C13_FirstCallbackWins ==
    \A r \in Registrations :
        /\ \A n \in FirstResolves :
             Returned(r, Thenable(n)) => SettlesAs(r, RESOLVED, Plain(42))
        /\ Returned(r, Thenable(7)) => SettlesAs(r, REJECTED, Err(1))

\* Promise 2's onFulfilled returned thenable 9 and promise 2 is FULFILLED
\* with 42; promise 3's onFulfilled returned thenable 6 and promise 3 is
\* FULFILLED with 42; every called flag is set and no task is left.
C13_Witness ==
    /\ Len(state) = 3
    /\ Returned(2, Thenable(9))
    /\ state[2] = RESOLVED
    /\ value[2] = Plain(42)
    /\ Returned(3, Thenable(6))
    /\ state[3] = RESOLVED
    /\ value[3] = Plain(42)
    /\ Quiescent

(***************************************************************************)
(* C14.  Thenable-retrieval error: when the handler invoked for a promise  *)
(* returned by then returned an object whose then getter throws e4, or a   *)
(* thenable whose then throws e2 before it called a callback (thenable 11, *)
(* and thenable 12, which had only set a timer for res(42)), the promise   *)
(* is never FULFILLED, is REJECTED only with that error, is REJECTED once  *)
(* the task queue is empty, and is rejected exactly once: while it is      *)
(* PENDING the task queue holds that one settling task for it and no       *)
(* other.                                                                  *)
(***************************************************************************)
\* The tasks of the queue that settle promise p.
SettlingTasks(p) ==
    {i \in DOMAIN tasks : tasks[i].t \in {"resolve", "reject"} /\ tasks[i].p = p}

RejectedOnceWith(r, e) ==
    /\ SettlesAs(r, REJECTED, e)
    /\ state[r] = PENDING =>
         /\ Scheduled(r, "reject", e)
         /\ Cardinality(SettlingTasks(r)) = 1
    /\ state[r] = REJECTED => SettlingTasks(r) = {}

\* The thenables whose then throws e2 before it called a callback.
ThenThrows == {11, 12}

C14_RetrievalError ==
    \A r \in Registrations :
        /\ Returned(r, BadThen(4)) => RejectedOnceWith(r, Err(4))
        /\ \A n \in ThenThrows :
             Returned(r, Thenable(n)) => RejectedOnceWith(r, Err(2))

\* Promise 2's onFulfilled returned thenable 12 and promise 2 is REJECTED
\* with e2 after the thenable's timer ran; promise 3's onRejected returned
\* the object with the throwing getter and promise 3 is REJECTED with e4.
C14_Witness ==
    /\ Len(state) = 3
    /\ Returned(2, Thenable(12))
    /\ state[2] = REJECTED
    /\ reason[2] = Err(2)
    /\ parent[3] = 2
    /\ Returned(3, BadThen(4))
    /\ state[3] = REJECTED
    /\ reason[3] = Err(4)
    /\ Quiescent

(***************************************************************************)
(* C15.  At-most-once, matching handler: no then registration has more     *)
(* than one handler invocation, onFulfilled and onRejected together;       *)
(* onFulfilled is invoked only when the promise then was called on is      *)
(* FULFILLED, and with its value; onRejected only when it is REJECTED, and *)
(* with its reason; whether the registration was queued while the promise  *)
(* was PENDING or scheduled after it had settled.                          *)
(***************************************************************************)
C15_AtMostOnceMatching ==
    \A i \in DOMAIN log :
        /\ \A j \in DOMAIN log : log[j].reg = log[i].reg => j = i
        /\ log[i].h = "F" =>
             /\ state[parent[log[i].reg]] = RESOLVED
             /\ log[i].arg = value[parent[log[i].reg]]
        /\ log[i].h = "R" =>
             /\ state[parent[log[i].reg]] = REJECTED
             /\ log[i].arg = reason[parent[log[i].reg]]

\* Promise 1 is REJECTED with e1 after two capability calls; promise 2 was
\* registered while it was PENDING and promise 3 after it had settled, and
\* each had its onRejected invoked once with e1.
C15_Witness ==
    /\ Len(state) = 3
    /\ calls = MaxCalls
    /\ Quiescent
    /\ state[1] = REJECTED
    /\ parent[2] = 1
    /\ parent[3] = 1
    /\ Queued(2)
    /\ ~Queued(3)
    /\ onRejected[2] = Throw(Err(3))
    /\ log = << [reg |-> 2, h |-> "R", arg |-> Err(1)],
                [reg |-> 3, h |-> "R", arg |-> Err(1)] >>

(***************************************************************************)
(* C16.  Payload invariant: in every state, the value of a promise is      *)
(* populated only if the promise is FULFILLED and its reason only if it is *)
(* REJECTED; both are undefined while it is PENDING, and never are both    *)
(* populated.                                                              *)
(***************************************************************************)
C16_PayloadInvariant ==
    \A p \in Promises :
        /\ value[p] # Undefined => state[p] = RESOLVED
        /\ reason[p] # Undefined => state[p] = REJECTED
        /\ state[p] = PENDING => value[p] = Undefined /\ reason[p] = Undefined
        /\ ~(value[p] # Undefined /\ reason[p] # Undefined)

\* Promise 1 is FULFILLED with 5 after resolve(5) and a second capability
\* call, reject(e1); promise 2 is REJECTED with the e3 its onFulfilled
\* threw; promise 3 is still PENDING.
C16_Witness ==
    /\ Len(state) = 3
    /\ calls = MaxCalls
    /\ firstCall = [op |-> "resolve", v |-> Plain(5)]
    /\ state[1] = RESOLVED
    /\ value[1] = Plain(5)
    /\ reason[1] = Undefined
    /\ state[2] = REJECTED
    /\ value[2] = Undefined
    /\ reason[2] = Err(3)
    /\ state[3] = PENDING
    /\ value[3] = Undefined
    /\ reason[3] = Undefined

(***************************************************************************)
(* C17.  Queue discard: a promise that has settled (its drain is part of   *)
(* the task that settles it) holds no continuation in resolvedCallbacks    *)
(* and none in rejectedCallbacks.                                          *)
(***************************************************************************)
C17_QueuesDiscarded ==
    \A p \in Promises :
        Settled(p) =>
            /\ resolvedCallbacks[p] = << >>
            /\ rejectedCallbacks[p] = << >>

(***************************************************************************)
(* C18.  Liveness, the timer queue being fair: a promise whose resolve or  *)
(* reject was called (the task of the call is in the queue) eventually     *)
(* leaves PENDING; and every then registration on a promise that has       *)
(* settled or is about to (registered before or after the settling)        *)
(* eventually has a handler invoked.                                       *)
(***************************************************************************)
\* A task of a resolve or reject call on promise p is in the queue.
SettlingScheduled(p) == SettlingTasks(p) # {}

C18_Liveness ==
    /\ \A p \in 1..MaxPromises :
          (p \in Promises /\ SettlingScheduled(p)) ~> (p \in Promises /\ Settled(p))
    /\ \A r \in 1..MaxPromises :
          (/\ r \in Registrations
           /\ Settled(parent[r]) \/ SettlingScheduled(parent[r]))
          ~> (r \in Promises /\ Invoked(r))

\* Promise 1 settled after a capability call; promise 2 was registered on
\* it while it was PENDING and promise 3 after it had settled; each had a
\* handler invoked, promise 3 last.
C18_Witness ==
    /\ Len(state) = 3
    /\ firstCall # NoCall
    /\ Settled(1)
    /\ parent[2] = 1
    /\ parent[3] = 1
    /\ Queued(2)
    /\ ~Queued(3)
    /\ Len(log) = 2
    /\ log[1].reg = 2
    /\ log[2].reg = 3

(***************************************************************************)
(* C19.  Resolve-then-throw: when the executor called resolve(v) and then  *)
(* threw e, the constructor does not throw, the promise is never REJECTED, *)
(* is FULFILLED only with v, and is FULFILLED once the task queue is       *)
(* empty; when it called reject(r) and then threw e, the promise is never  *)
(* FULFILLED, is REJECTED only with r, not e, and is REJECTED once the     *)
(* task queue is empty.                                                    *)
(***************************************************************************)
C19_ResolveThenThrow ==
    executor.throws /\ executor.steps # << >> =>
        /\ ~threw
        /\ Head(executor.steps).op = "resolve" =>
             SettlesAs(1, RESOLVED, Head(executor.steps).v)
        /\ Head(executor.steps).op = "reject" =>
             SettlesAs(1, REJECTED, Head(executor.steps).v)

\* The executor called resolve(5) and threw e2; promise 1 is FULFILLED
\* with 5 and the task of the catch block's reject(e2) has run.
C19_Witness ==
    /\ executor = ResolveThenThrow
    /\ state[1] = RESOLVED
    /\ value[1] = Plain(5)
    /\ reason[1] = Undefined
    /\ ~Scheduled(1, "reject", Err(2))
    /\ Len(state) = 3
    /\ Quiescent

(***************************************************************************)
(* C20.  Registration during drain: a registration p.then(h3, h3) made by  *)
(* a handler that runs for p has no handler invoked in the step that made  *)
(* it (no promise has a handler invoked in the step that makes it); h3 is  *)
(* invoked at most once, only after a handler of every registration made   *)
(* on p before it has been invoked, and has been invoked once the task     *)
(* queue is empty.                                                         *)
(***************************************************************************)
\* Registration r3 was made by a handler.
MadeByHandler(r3) == onFulfilled[r3] = H3

NotInvokedWhenMade ==
    \A r \in (Len(state) + 1)..Len(state') :
        \A i \in DOMAIN log' : log'[i].reg # r

InvokedLaterInOrder ==
    \A r3 \in Registrations :
        MadeByHandler(r3) =>
            /\ \A i, j \in DOMAIN log :
                 log[i].reg = r3 /\ log[j].reg = r3 => i = j
            /\ \A i \in DOMAIN log :
                 log[i].reg = r3 =>
                     \A r \in Registrations :
                         r < r3 /\ parent[r] = parent[r3] =>
                             \E j \in 1..(i - 1) : log[j].reg = r
            /\ Quiescent => Invoked(r3)

C20_RegistrationDuringDrain ==
    /\ []InvokedLaterInOrder
    /\ [][NotInvokedWhenMade]_vars

\* Promises 2 and 3 were registered on promise 1 while it was PENDING,
\* promise 2 with the handler that calls p.then(h3, h3); promise 4 is the
\* one that handler made during the drain, and h3 was invoked after the
\* handlers of promises 2 and 3.
C20_Witness ==
    /\ Len(state) = 4
    /\ state[1] = RESOLVED
    /\ Queued(2)
    /\ Queued(3)
    /\ onFulfilled[2] = ThenAgain(H3)
    /\ onFulfilled[3] = Ret(Plain(7))
    /\ parent[4] = 1
    /\ MadeByHandler(4)
    /\ ~Queued(4)
    /\ log = << [reg |-> 2, h |-> "F", arg |-> Plain(5)],
                [reg |-> 3, h |-> "F", arg |-> Plain(5)],
                [reg |-> 4, h |-> "F", arg |-> Plain(5)] >>

====
